---- MODULE Spec2Model ----
(***************************************************************************)
(* Model of the logspout fluentd adapter (src/adapter.go).                 *)
(*                                                                         *)
(* NewAdapter: environment parsing, the start-up dial loop, construction   *)
(* of the fluent sender and of the Adapter.                                *)
(* Adapter.Stream: the per-stream forwarding loop over a Go channel.       *)
(*                                                                         *)
(* Strings are sequences of byte values (32 = ' ', 46 = '.', 45 = '-',     *)
(* 48..57 = '0'..'9'), so that concatenation, the whitespace match and     *)
(* strconv.Atoi are computed on characters.                                *)
(***************************************************************************)
EXTENDS Integers, Sequences, FiniteSets, TLC

(* ------------------------------ bounds --------------------------------- *)

\* messages the producers send in one run, over all streams
MaxMsgs == 3
\* capacity of an inbound channel (messages sent and not yet dequeued)
ChanCap == 2

(* ------------------------- program constants --------------------------- *)

defaultBufferLimit == 1024 * 1024
defaultWriteTimeout == 3
defaultRetryWait == 1000
defaultMaxRetries == 2147483647

(* ------------------------------ strings -------------------------------- *)

\* "docker", "10", "1", "false"
StrDocker == <<100, 111, 99, 107, 101, 114>>
StrTen == <<49, 48>>
StrOne == <<49>>
StrFalse == <<102, 97, 108, 115, 101>>

\* the regexp class [[:space:]] of RE2: \t \n \v \f \r and space
SpaceClass == {9, 10, 11, 12, 13, 32}

\* a getenv that hands back what os.Getenv returned, set or not
getenvNoFallback(value, fallback) == value

\* getenv(key, fallback), given value = os.Getenv(key)
getenv(value, fallback) ==
    IF Len(value) = 0 THEN fallback ELSE value

RECURSIVE DigitsVal(_, _)
\* the decimal value of the digit string s, accumulated left to right
DigitsVal(s, acc) ==
    IF s = <<>> THEN acc ELSE DigitsVal(Tail(s), 10 * acc + (Head(s) - 48))

\* strconv.Atoi: optional sign, then one or more decimal digits
Atoi(s) ==
    LET signed == s # <<>> /\ Head(s) \in {43, 45}
        body == IF signed THEN Tail(s) ELSE s
        ok == body # <<>> /\ \A k \in DOMAIN body : body[k] \in 48..57
    IN  [ok |-> ok,
         val |-> IF ~ok THEN 0
                 ELSE IF signed /\ Head(s) = 45 THEN 0 - DigitsVal(body, 0)
                 ELSE DigitsVal(body, 0)]

RECURSIVE ItoaDigits(_)
ItoaDigits(n) ==
    IF n < 10 THEN <<48 + n>> ELSE Append(ItoaDigits(n \div 10), 48 + (n % 10))

\* strconv.Itoa
Itoa(n) ==
    IF n < 0 THEN <<45>> \o ItoaDigits(0 - n) ELSE ItoaDigits(n)

\* a parse that takes every text but the true ones for false, without error
ParseBoolLenient(s) ==
    [ok |-> TRUE,
     val |-> s \in {<<49>>, <<116>>, <<84>>, <<84, 82, 85, 69>>,
                    <<116, 114, 117, 101>>, <<84, 114, 117, 101>>}]

\* strconv.ParseBool: 1 t T TRUE true True / 0 f F FALSE false False
ParseBool(s) ==
    LET trues == {<<49>>, <<116>>, <<84>>, <<84, 82, 85, 69>>,
                  <<116, 114, 117, 101>>, <<84, 114, 117, 101>>}
        falses == {<<48>>, <<102>>, <<70>>, <<70, 65, 76, 83, 69>>,
                   <<102, 97, 108, 115, 101>>, <<70, 97, 108, 115, 101>>}
    IN  [ok |-> s \in trues \/ s \in falses, val |-> s \in trues]

\* net.SplitHostPort for addresses without brackets: the port follows the
\* last colon, the host before it holds no colon; on error both are empty
SplitHostPort(a) ==
    LET colons == {k \in DOMAIN a : a[k] = 58}
        j == IF colons = {} THEN 0
             ELSE CHOOSE k \in colons : \A l \in colons : l <= k
        ok == Cardinality(colons) = 1
    IN  [ok |-> ok,
         host |-> IF ok THEN SubSeq(a, 1, j - 1) ELSE <<>>,
         port |-> IF ok THEN SubSeq(a, j + 1, Len(a)) ELSE <<>>]

(* ------------------------- the message transform ----------------------- *)

RECURSIVE MatchSpaceStar(_)
\* regexp.MatchString("^[[:space:]]*$", data): from the start of the text,
\* consume space-class characters; match iff the end of the text is reached
MatchSpaceStar(data) ==
    IF data = <<>> THEN TRUE
    ELSE IF Head(data) \in SpaceClass THEN MatchSpaceStar(Tail(data))
    ELSE FALSE

\* a filter that drops only the empty string
messageIsEmptyLenZero(data) == Len(data) = 0

\* line 73
messageIsEmpty(data) == MatchSpaceStar(data)

\* message.Container.Config.Labels[key]: a missing key reads as ""
LabelOf(labels, key) ==
    IF key \in DOMAIN labels THEN labels[key] ELSE <<>>

\* a tag that falls back to name-hostname only when the label is absent
TagAbsentOnly(ad, message) ==
    LET tag0 == IF Len(ad.tagPrefix) > 0 THEN ad.tagPrefix ELSE <<>>
        tagSuffix == IF ad.tagSuffixLabel \in DOMAIN message.Labels
                     THEN message.Labels[ad.tagSuffixLabel]
                     ELSE message.Name \o <<45>> \o message.Hostname
    IN  tag0 \o <<46>> \o tagSuffix

\* the tag of lines 79-89
Tag(ad, message) ==
    LET tag0 == IF Len(ad.tagPrefix) > 0 THEN ad.tagPrefix ELSE <<>>
        label == LabelOf(message.Labels, ad.tagSuffixLabel)
        tagSuffix == IF label = <<>>
                     THEN message.Name \o <<45>> \o message.Hostname
                     ELSE label
    IN  tag0 \o <<46>> \o tagSuffix

\* a record whose container_name is filled from the container ID
RecordNameFromID(message) ==
    [log |-> message.Data,
     container_id |-> message.ID,
     container_name |-> message.ID,
     source |-> message.Source]

\* the record of lines 91-97
Record(message) ==
    [log |-> message.Data,
     container_id |-> message.ID,
     container_name |-> message.Name,
     source |-> message.Source]

(* ------------------------------- inputs -------------------------------- *)

\* values os.Getenv may return for the keys NewAdapter reads ("" = unset)
\* CONNECTION_MAX_RETRIES: unset, "0", "2", "-1", "x"
ConnMaxRetriesEnv == {<<>>, <<48>>, <<50>>, <<45, 49>>, <<120>>}
\* CONNECTION_RETRY_WAIT: unset, "2", "x"
ConnRetryWaitEnv == {<<>>, <<50>>, <<120>>}
\* the FLUENTD_* integer keys: unset, "5", "x"
IntEnv == {<<>>, <<53>>, <<120>>}
\* the FLUENTD_* boolean keys: unset, "true", "y"
BoolEnv == {<<>>, <<116, 114, 117, 101>>, <<121>>}
\* TAG_PREFIX: unset, "p"
TagPrefixEnv == {<<>>, <<112>>}
\* TAG_SUFFIX_LABEL: unset, "svc"
TagSuffixLabelEnv == {<<>>, <<115, 118, 99>>}
\* route.Address: "h:24", "h", "h:x", "h:1:2"
Addresses == {<<104, 58, 50, 52>>, <<104>>, <<104, 58, 120>>,
              <<104, 58, 49, 58, 50>>}

\* the inbound streams routed to one adapter
Streams == {"s1", "s2"}

\* containers: no labels; label svc = "api"; label svc = ""
ContainerA == [ID |-> <<99, 49>>, Name |-> <<119>>, Hostname |-> <<104>>,
               Labels |-> <<>>]
ContainerB == [ID |-> <<99, 50>>, Name |-> <<118>>, Hostname |-> <<103>>,
               Labels |-> (<<115, 118, 99>> :> <<97, 112, 105>>)]
ContainerC == [ID |-> <<99, 51>>, Name |-> <<117>>, Hostname |-> <<104>>,
               Labels |-> (<<115, 118, 99>> :> <<>>)]

\* a router.Message, flattened: Container.ID, Container.Name,
\* Container.Config.Hostname, Container.Config.Labels, Data, Source, Time
Msg(c, data, source, time) ==
    [ID |-> c.ID, Name |-> c.Name, Hostname |-> c.Hostname, Labels |-> c.Labels,
     Data |-> data, Source |-> source, Time |-> time]

\* the log lines a producer may send at time t: "", " \t\n", "a", "a", "b",
\* " a\n" (source "o" or "e")
MessagesAt(t) ==
    {Msg(ContainerA, <<>>, <<111>>, t),
     Msg(ContainerB, <<32, 9, 10>>, <<101>>, t),
     Msg(ContainerA, <<97>>, <<111>>, t),
     Msg(ContainerB, <<97>>, <<101>>, t),
     Msg(ContainerC, <<98>>, <<111>>, t),
     Msg(ContainerA, <<32, 97, 10>>, <<101>>, t)}

(* -------------------------------- state -------------------------------- *)

VARIABLES
    pcNew,           \* position of NewAdapter: start, loop, config, new, returned, failed
    address,         \* route.Address
    connMaxRetries,  \* line 117
    connRetryWait,   \* line 121
    i,               \* the loop counter of line 127
    fluentConfig,    \* line 189, the zero fluent.Config before
    newErr,          \* the error NewAdapter returned, "" while there is none
    envRead,         \* what os.Getenv returned for the keys read so far (line 47)
    dials,           \* results of the transport.Dial calls of line 128, in order
    sleeps,          \* seconds of each time.Sleep of line 135, in order
    probeConn,       \* a Dial of line 128 opened a connection (it is never closed)
    writer,          \* the fluent sender: NIL or "fluent"
    adapter,         \* the *Adapter returned: NilAdapter or its fields
    active,          \* the streams routed to the adapter in this run
    logstream,       \* per stream: the messages in the channel
    closed,          \* per stream: the producer closed the channel
    pc,              \* per stream: position of Stream: idle, recv, post, done
    received,        \* per stream: the messages dequeued so far, in order
    posts,           \* the PostWithTime calls made on the writer, in order
    inflight,        \* per stream: index in posts of the call not yet returned, or 0
    errLog,          \* the lines logged at line 104: indices in posts
    now,             \* the producers' clock: messages sent so far
    pendingAtClose   \* per stream: the messages in the channel when it was closed

vars == <<pcNew, address, connMaxRetries, connRetryWait, i, fluentConfig, newErr,
          envRead, dials, sleeps, probeConn, writer, adapter, active, logstream, closed, pc, received,
          posts, inflight, errLog, now, pendingAtClose>>

newVars == <<pcNew, address, connMaxRetries, connRetryWait, i, fluentConfig, newErr,
             envRead, dials, sleeps, probeConn, writer, adapter, active>>

streamVars == <<logstream, closed, pc, received, posts, inflight, errLog, now,
                pendingAtClose>>

NIL == "nil"

\* no key of the environment has been read
NoEnv == [key \in {} |-> <<>>]

\* the FLUENTD_* keys in the order lines 149-184 read them
ConfigKeys ==
    <<"FLUENTD_BUFFER_LIMIT", "FLUENTD_RETRY_WAIT", "FLUENTD_MAX_RETRIES",
      "FLUENTD_ASYNC_CONNECT", "FLUENTD_SUBSECOND_PRECISION", "FLUENTD_REQUEST_ACK",
      "FLUENTD_WRITE_TIMEOUT">>

\* env with the first k of keys read, their values those of vals
ReadKeys(env, keys, vals, k) ==
    [key \in DOMAIN env \cup {keys[j] : j \in 1..k} |->
        IF key \in DOMAIN env THEN env[key]
        ELSE vals[CHOOSE j \in 1..k : keys[j] = key]]

\* a nil *Adapter
NilAdapter == [isNil |-> TRUE, tagPrefix |-> <<>>, tagSuffixLabel |-> <<>>]

\* the zero value of fluent.Config
ZeroConfig ==
    [FluentHost |-> <<>>, FluentPort |-> 0, FluentNetwork |-> "",
     FluentSocketPath |-> "", BufferLimit |-> 0, RetryWait |-> 0, MaxRetry |-> 0,
     Async |-> FALSE, SubSecondPrecision |-> FALSE, RequestAck |-> FALSE,
     WriteTimeout |-> 0]

\* no stream has started, nothing has been sent
InitStreams ==
    /\ logstream = [s \in Streams |-> <<>>]
    /\ closed = [s \in Streams |-> FALSE]
    /\ pc = [s \in Streams |-> "idle"]
    /\ received = [s \in Streams |-> <<>>]
    /\ posts = <<>>
    /\ inflight = [s \in Streams |-> 0]
    /\ errLog = <<>>
    /\ now = 0
    /\ pendingAtClose = [s \in Streams |-> 0]

\* the process before the router calls NewAdapter(route); one stream routed
Init ==
    /\ pcNew = "start"
    /\ address \in Addresses
    /\ connMaxRetries = 0
    /\ connRetryWait = 0
    /\ i = 0
    /\ fluentConfig = ZeroConfig
    /\ newErr = ""
    /\ envRead = NoEnv
    /\ dials = <<>>
    /\ sleeps = <<>>
    /\ probeConn = FALSE
    /\ writer = NIL
    /\ adapter = NilAdapter
    /\ active = {"s1"}
    /\ InitStreams

(* ------------------------------ NewAdapter ----------------------------- *)

\* return nil, err
ReturnErr(e) ==
    /\ pcNew' = "failed"
    /\ newErr' = e
    /\ UNCHANGED <<writer, adapter>>

\* lines 112-124: transport lookup, CONNECTION_MAX_RETRIES, CONNECTION_RETRY_WAIT
NewAdapterStart ==
    /\ pcNew = "start"
    /\ \E found \in BOOLEAN, mr \in ConnMaxRetriesEnv, rw \in ConnRetryWaitEnv :
         LET n == Atoi(getenv(mr, StrTen))
             w == Atoi(getenv(rw, StrOne))
             keys == <<"CONNECTION_MAX_RETRIES", "CONNECTION_RETRY_WAIT">>
         IN  IF ~found
             THEN /\ ReturnErr("Unable to find adapter")
                  /\ UNCHANGED <<connMaxRetries, connRetryWait, envRead>>
             ELSE IF ~n.ok
             THEN /\ ReturnErr("CONNECTION_MAX_RETRIES")
                  /\ envRead' = ReadKeys(envRead, keys, <<mr, rw>>, 1)
                  /\ UNCHANGED <<connMaxRetries, connRetryWait>>
             ELSE IF ~w.ok
             THEN /\ ReturnErr("CONNECTION_RETRY_WAIT")
                  /\ envRead' = ReadKeys(envRead, keys, <<mr, rw>>, 2)
                  /\ connMaxRetries' = n.val
                  /\ UNCHANGED connRetryWait
             ELSE /\ connMaxRetries' = n.val
                  /\ connRetryWait' = w.val
                  /\ envRead' = ReadKeys(envRead, keys, <<mr, rw>>, 2)
                  /\ pcNew' = "loop"
                  /\ UNCHANGED <<newErr, writer, adapter>>
    /\ i' = 0
    /\ UNCHANGED <<address, fluentConfig, dials, sleeps, probeConn, active>>
    /\ UNCHANGED streamVars

\* a dial loop that sleeps before it looks whether the attempt was the last
DialStepSleepFirst(err) ==
    /\ dials' = Append(dials, ~err)
    /\ probeConn' = (probeConn \/ ~err)
    /\ IF err
       THEN /\ sleeps' = Append(sleeps, connRetryWait)
            /\ IF i = connMaxRetries
               THEN ReturnErr("dial") /\ UNCHANGED i
               ELSE i' = i + 1 /\ UNCHANGED <<pcNew, newErr, writer, adapter>>
       ELSE /\ pcNew' = "config"
            /\ UNCHANGED <<i, sleeps, newErr, writer, adapter>>

\* lines 128-139: the body of the dial loop, err the result of Dial
DialStep(err) ==
    /\ dials' = Append(dials, ~err)
    /\ probeConn' = (probeConn \/ ~err)
    /\ IF err
       THEN IF i = connMaxRetries
            THEN /\ ReturnErr("dial")
                 /\ UNCHANGED <<i, sleeps>>
            ELSE /\ sleeps' = Append(sleeps, connRetryWait)
                 /\ i' = i + 1
                 /\ UNCHANGED <<pcNew, newErr, writer, adapter>>
       ELSE /\ pcNew' = "config"
            /\ UNCHANGED <<i, sleeps, newErr, writer, adapter>>

\* a loop condition that is off by one
LoopCondStrict == i < connMaxRetries

\* line 127: the loop condition
LoopCond == i <= connMaxRetries

NewAdapterDial ==
    /\ pcNew = "loop"
    /\ LoopCond
    /\ \E err \in BOOLEAN : DialStep(err)
    /\ UNCHANGED <<address, connMaxRetries, connRetryWait, fluentConfig, envRead,
                   active>>
    /\ UNCHANGED streamVars

\* line 127: the loop condition is false
NewAdapterLoopEnd ==
    /\ pcNew = "loop"
    /\ ~LoopCond
    /\ pcNew' = "config"
    /\ UNCHANGED <<address, connMaxRetries, connRetryWait, i, fluentConfig, newErr,
                   envRead, dials, sleeps, probeConn, writer, adapter, active>>
    /\ UNCHANGED streamVars

\* lines 142-204: the address and the FLUENTD_* keys, up to fluentConfig
NewAdapterConfig ==
    /\ pcNew = "config"
    /\ \E bl \in IntEnv, rw \in IntEnv, mr \in IntEnv, ac \in BoolEnv,
          sp \in BoolEnv, ra \in BoolEnv, wt \in IntEnv :
         LET hp == SplitHostPort(address)
             portNum == Atoi(hp.port)
             bufferLimit == Atoi(getenv(bl, Itoa(defaultBufferLimit)))
             retryWait == Atoi(getenv(rw, Itoa(defaultRetryWait)))
             maxRetries == Atoi(getenv(mr, Itoa(defaultMaxRetries)))
             asyncConnect == ParseBool(getenv(ac, StrFalse))
             subSecondPrecision == ParseBool(getenv(sp, StrFalse))
             requestAck == ParseBool(getenv(ra, StrFalse))
             writeTimeout == Atoi(getenv(wt, Itoa(defaultWriteTimeout)))
             read(k) == ReadKeys(envRead, ConfigKeys, <<bl, rw, mr, ac, sp, ra, wt>>, k)
             failed(e, k) == /\ ReturnErr(e)
                             /\ envRead' = read(k)
                             /\ UNCHANGED fluentConfig
         IN  IF ~portNum.ok THEN failed("Invalid fluentd-address", 0)
             ELSE IF ~bufferLimit.ok THEN failed("FLUENTD_BUFFER_LIMIT", 1)
             ELSE IF ~retryWait.ok THEN failed("FLUENTD_RETRY_WAIT", 2)
             ELSE IF ~maxRetries.ok THEN failed("FLUENTD_MAX_RETRIES", 3)
             ELSE IF ~asyncConnect.ok THEN failed("FLUENTD_ASYNC_CONNECT", 4)
             ELSE IF ~subSecondPrecision.ok THEN failed("FLUENTD_SUBSECOND_PRECISION", 5)
             ELSE IF ~requestAck.ok THEN failed("FLUENTD_REQUEST_ACK", 6)
             ELSE IF ~writeTimeout.ok THEN failed("FLUENTD_WRITE_TIMEOUT", 7)
             ELSE /\ envRead' = read(7)
                  /\ fluentConfig' =
                        [FluentHost |-> hp.host,
                         FluentPort |-> portNum.val,
                         FluentNetwork |-> "tcp",
                         FluentSocketPath |-> "",
                         BufferLimit |-> bufferLimit.val,
                         RetryWait |-> retryWait.val,
                         MaxRetry |-> maxRetries.val,
                         Async |-> asyncConnect.val,
                         SubSecondPrecision |-> subSecondPrecision.val,
                         RequestAck |-> requestAck.val,
                         WriteTimeout |-> writeTimeout.val]
                  /\ pcNew' = "new"
                  /\ UNCHANGED <<newErr, writer, adapter>>
    /\ UNCHANGED <<address, connMaxRetries, connRetryWait, i, dials, sleeps,
                   probeConn, active>>
    /\ UNCHANGED streamVars

\* line 215: NewAdapter returns to the router, which goes on to run the
\* streams; the locals of the call and the record of its dial loop go with
\* it, and of the environment read only what the adapter's fields were built
\* from is kept
FrameReleased ==
    /\ connMaxRetries' = 0
    /\ connRetryWait' = 0
    /\ i' = 0
    /\ fluentConfig' = ZeroConfig
    /\ dials' = <<>>
    /\ sleeps' = <<>>

\* lines 206-215: fluent.New (err its result), TAG_PREFIX, TAG_SUFFIX_LABEL
NewAdapterNew ==
    /\ pcNew = "new"
    /\ \E err \in BOOLEAN, tp \in TagPrefixEnv, tl \in TagSuffixLabelEnv :
         IF err
         THEN /\ ReturnErr("Unable to create fluentd logger")
              /\ UNCHANGED <<connMaxRetries, connRetryWait, i, fluentConfig,
                             envRead, dials, sleeps>>
         ELSE /\ writer' = "fluent"
              /\ adapter' = [isNil |-> FALSE,
                             tagPrefix |-> getenv(tp, StrDocker),
                             tagSuffixLabel |-> getenv(tl, <<>>)]
              /\ envRead' = ReadKeys(NoEnv, <<"TAG_PREFIX", "TAG_SUFFIX_LABEL">>,
                                      <<tp, tl>>, 2)
              /\ pcNew' = "returned"
              /\ UNCHANGED newErr
              /\ FrameReleased
    /\ UNCHANGED <<address, probeConn, active>>
    /\ UNCHANGED streamVars

(* ------------------------------ the producer --------------------------- *)

\* the producer sends one log line on the channel of stream s; the channel
\* exists from the call of Stream(logstream) on
Produce(s) ==
    /\ pc[s] # "idle"
    /\ ~closed[s]
    /\ Len(logstream[s]) < ChanCap
    /\ now < MaxMsgs
    /\ \E m \in MessagesAt(now + 1) :
         logstream' = [logstream EXCEPT ![s] = Append(@, m)]
    /\ now' = now + 1
    /\ UNCHANGED <<closed, pc, received, posts, inflight, errLog>>
    /\ UNCHANGED <<newVars, pendingAtClose>>

\* the producer closes the channel of stream s
Close(s) ==
    /\ pc[s] # "idle"
    /\ ~closed[s]
    /\ closed' = [closed EXCEPT ![s] = TRUE]
    /\ pendingAtClose' = [pendingAtClose EXCEPT ![s] = Len(logstream[s])]
    /\ UNCHANGED <<logstream, pc, received, posts, inflight, errLog, now>>
    /\ UNCHANGED newVars

(* ---------------------------- Adapter.Stream --------------------------- *)

\* lines 68-69: the router calls ad.Stream(logstream) on the adapter
StreamStart(s) ==
    /\ s \in active
    /\ ~adapter.isNil
    /\ pc[s] = "idle"
    /\ pc' = [pc EXCEPT ![s] = "recv"]
    /\ UNCHANGED <<logstream, closed, received, posts, inflight, errLog, now>>
    /\ UNCHANGED <<newVars, pendingAtClose>>

\* a loop that hands the message to the sender and does not wait for it
ReceiveNoWait(s) ==
    /\ pc[s] = "recv"
    /\ logstream[s] # <<>>
    /\ LET message == Head(logstream[s])
       IN  /\ logstream' = [logstream EXCEPT ![s] = Tail(@)]
           /\ received' = [received EXCEPT ![s] = Append(@, message)]
           /\ IF messageIsEmpty(message.Data)
              THEN UNCHANGED <<posts, inflight>>
              ELSE /\ posts' = Append(posts,
                                      [stream |-> s,
                                       tag |-> Tag(adapter, message),
                                       time |-> message.Time,
                                       record |-> Record(message),
                                       res |-> "pending"])
                   /\ inflight' = [inflight EXCEPT ![s] = Len(posts) + 1]
    /\ UNCHANGED <<closed, pc, errLog, now>>
    /\ UNCHANGED <<newVars, pendingAtClose>>

\* lines 70-102: one message is dequeued; a blank one is skipped (line 76),
\* any other is transformed and PostWithTime is called with it
\* a loop whose tag variable is declared before the loop and keeps growing
ReceiveAccumulating(s) ==
    /\ pc[s] = "recv"
    /\ logstream[s] # <<>>
    /\ LET message == Head(logstream[s])
           mine == SelectSeq(posts, LAMBDA p : p.stream = s)
           tag == IF mine = <<>> THEN Tag(adapter, message)
                  ELSE Tag([adapter EXCEPT !.tagPrefix = mine[Len(mine)].tag], message)
       IN  /\ logstream' = [logstream EXCEPT ![s] = Tail(@)]
           /\ received' = [received EXCEPT ![s] = Append(@, message)]
           /\ IF messageIsEmpty(message.Data)
              THEN UNCHANGED <<pc, posts, inflight>>
              ELSE /\ posts' = Append(posts,
                                      [stream |-> s,
                                       tag |-> tag,
                                       time |-> message.Time,
                                       record |-> Record(message),
                                       res |-> "pending"])
                   /\ inflight' = [inflight EXCEPT ![s] = Len(posts) + 1]
                   /\ pc' = [pc EXCEPT ![s] = "post"]
    /\ UNCHANGED <<closed, errLog, now>>
    /\ UNCHANGED <<newVars, pendingAtClose>>

\* a loop that holds a lock of the adapter from the dequeue to the return of
\* the post
ReceiveLocked(s) ==
    /\ pc[s] = "recv"
    /\ logstream[s] # <<>>
    /\ \A t \in Streams \ {s} : pc[t] # "post"
    /\ LET message == Head(logstream[s])
       IN  /\ logstream' = [logstream EXCEPT ![s] = Tail(@)]
           /\ received' = [received EXCEPT ![s] = Append(@, message)]
           /\ IF messageIsEmpty(message.Data)
              THEN UNCHANGED <<pc, posts, inflight>>
              ELSE /\ posts' = Append(posts,
                                      [stream |-> s,
                                       tag |-> Tag(adapter, message),
                                       time |-> message.Time,
                                       record |-> Record(message),
                                       res |-> "pending"])
                   /\ inflight' = [inflight EXCEPT ![s] = Len(posts) + 1]
                   /\ pc' = [pc EXCEPT ![s] = "post"]
    /\ UNCHANGED <<closed, errLog, now>>
    /\ UNCHANGED <<newVars, pendingAtClose>>

Receive(s) ==
    /\ pc[s] = "recv"
    /\ logstream[s] # <<>>
    /\ LET message == Head(logstream[s])
       IN  /\ logstream' = [logstream EXCEPT ![s] = Tail(@)]
           /\ received' = [received EXCEPT ![s] = Append(@, message)]
           /\ IF messageIsEmpty(message.Data)
              THEN UNCHANGED <<pc, posts, inflight>>
              ELSE /\ posts' = Append(posts,
                                      [stream |-> s,
                                       tag |-> Tag(adapter, message),
                                       time |-> message.Time,
                                       record |-> Record(message),
                                       res |-> "pending"])
                   /\ inflight' = [inflight EXCEPT ![s] = Len(posts) + 1]
                   /\ pc' = [pc EXCEPT ![s] = "post"]
    /\ UNCHANGED <<closed, errLog, now>>
    /\ UNCHANGED <<newVars, pendingAtClose>>

\* a loop that returns on a failed post
PostReturnHalt(s, err) ==
    /\ pc[s] = "post"
    /\ posts' = [posts EXCEPT ![inflight[s]].res = IF err THEN "err" ELSE "ok"]
    /\ errLog' = IF err THEN Append(errLog, inflight[s]) ELSE errLog
    /\ inflight' = [inflight EXCEPT ![s] = 0]
    /\ pc' = [pc EXCEPT ![s] = IF err THEN "done" ELSE "recv"]
    /\ UNCHANGED <<logstream, closed, received, now>>
    /\ UNCHANGED <<newVars, pendingAtClose>>

\* a loop that posts the message again when the post failed
PostReturnRetry(s, err) ==
    /\ pc[s] = "post"
    /\ IF err
       THEN /\ posts' = Append([posts EXCEPT ![inflight[s]].res = "err"],
                               [posts[inflight[s]] EXCEPT !.res = "pending"])
            /\ errLog' = Append(errLog, inflight[s])
            /\ inflight' = [inflight EXCEPT ![s] = Len(posts) + 1]
            /\ UNCHANGED pc
       ELSE /\ posts' = [posts EXCEPT ![inflight[s]].res = "ok"]
            /\ inflight' = [inflight EXCEPT ![s] = 0]
            /\ pc' = [pc EXCEPT ![s] = "recv"]
            /\ UNCHANGED errLog
    /\ UNCHANGED <<logstream, closed, received, now>>
    /\ UNCHANGED <<newVars, pendingAtClose>>

\* a loop that does not log a failed post
PostReturnSilent(s, err) ==
    /\ pc[s] = "post"
    /\ posts' = [posts EXCEPT ![inflight[s]].res = IF err THEN "err" ELSE "ok"]
    /\ inflight' = [inflight EXCEPT ![s] = 0]
    /\ pc' = [pc EXCEPT ![s] = "recv"]
    /\ UNCHANGED <<logstream, closed, received, errLog, now>>
    /\ UNCHANGED <<newVars, pendingAtClose>>

\* lines 102-106: PostWithTime returns err; an error is logged; next message
PostReturn(s, err) ==
    /\ pc[s] = "post"
    /\ posts' = [posts EXCEPT ![inflight[s]].res = IF err THEN "err" ELSE "ok"]
    /\ errLog' = IF err THEN Append(errLog, inflight[s]) ELSE errLog
    /\ inflight' = [inflight EXCEPT ![s] = 0]
    /\ pc' = [pc EXCEPT ![s] = "recv"]
    /\ UNCHANGED <<logstream, closed, received, now>>
    /\ UNCHANGED <<newVars, pendingAtClose>>

\* a loop that returns as soon as the channel is empty, closed or not
StreamExitOnEmpty(s) ==
    /\ pc[s] = "recv"
    /\ logstream[s] = <<>>
    /\ pc' = [pc EXCEPT ![s] = "done"]
    /\ UNCHANGED <<logstream, closed, received, posts, inflight, errLog, now>>
    /\ UNCHANGED <<newVars, pendingAtClose>>

\* a loop that returns as soon as the channel is closed, drained or not
StreamExitOnClose(s) ==
    /\ pc[s] = "recv"
    /\ closed[s]
    /\ pc' = [pc EXCEPT ![s] = "done"]
    /\ UNCHANGED <<logstream, closed, received, posts, inflight, errLog, now>>
    /\ UNCHANGED <<newVars, pendingAtClose>>

\* lines 70, 108: the channel is closed and empty, the range loop ends
StreamExit(s) ==
    /\ pc[s] = "recv"
    /\ logstream[s] = <<>>
    /\ closed[s]
    /\ pc' = [pc EXCEPT ![s] = "done"]
    /\ UNCHANGED <<logstream, closed, received, posts, inflight, errLog, now>>
    /\ UNCHANGED <<newVars, pendingAtClose>>

(* ---------------------------- specifications --------------------------- *)

NextStream ==
    \/ \E s \in Streams : Produce(s)
    \/ \E s \in Streams : Close(s)
    \/ \E s \in Streams : StreamStart(s)
    \/ \E s \in Streams : Receive(s)
    \/ \E s \in Streams, err \in BOOLEAN : PostReturn(s, err)
    \/ \E s \in Streams : StreamExit(s)

Next ==
    \/ NewAdapterStart
    \/ NewAdapterDial
    \/ NewAdapterLoopEnd
    \/ NewAdapterConfig
    \/ NewAdapterNew
    \/ NextStream

\* NewAdapter, then one stream on the adapter it returned
Spec == Init /\ [][Next]_vars

\* "p", "svc"
StrP == <<112>>
StrSvc == <<115, 118, 99>>

\* an Adapter built as a struct literal (lines 61-65) around a sender, with any
\* tagPrefix and tagSuffixLabel, the empty ones included; one stream routed
InitDirect ==
    /\ pcNew = "returned"
    /\ address \in {<<104, 58, 50, 52>>}
    /\ connMaxRetries = 0
    /\ connRetryWait = 0
    /\ i = 0
    /\ fluentConfig = ZeroConfig
    /\ newErr = ""
    /\ envRead = NoEnv
    /\ dials = <<>>
    /\ sleeps = <<>>
    /\ probeConn = FALSE
    /\ writer = "fluent"
    /\ adapter \in [isNil : {FALSE},
                    tagPrefix : {<<>>, StrDocker, StrP},
                    tagSuffixLabel : {<<>>, StrSvc}]
    /\ active = {"s1"}
    /\ InitStreams

\* Stream on an adapter of any field values
SpecDirect == InitDirect /\ [][NextStream]_vars

\* one Adapter, as NewAdapter returns it with TAG_SUFFIX_LABEL=svc, handed by
\* the router to two Stream goroutines, each with a channel of its own
InitMulti ==
    /\ pcNew = "returned"
    /\ address \in {<<104, 58, 50, 52>>}
    /\ connMaxRetries = 0
    /\ connRetryWait = 0
    /\ i = 0
    /\ fluentConfig = ZeroConfig
    /\ newErr = ""
    /\ envRead = NoEnv
    /\ dials = <<>>
    /\ sleeps = <<>>
    /\ probeConn = TRUE
    /\ writer = "fluent"
    /\ adapter = [isNil |-> FALSE, tagPrefix |-> StrDocker, tagSuffixLabel |-> StrSvc]
    /\ active = Streams
    /\ InitStreams

\* two invocations of Stream on the same adapter, interleaved
SpecMulti == InitMulti /\ [][NextStream]_vars

(* -------------------------------- claims -------------------------------- *)

\* the PostWithTime calls of stream s, in the order they were made
PostsOf(s) == SelectSeq(posts, LAMBDA p : p.stream = s)

\* data is empty or holds only white space
OnlyWhitespace(data) == \A k \in DOMAIN data : data[k] \in {9, 10, 11, 12, 13, 32}

\* the messages of a sequence that are not blank, in order
NonBlank(msgs) == SelectSeq(msgs, LAMBDA m : ~OnlyWhitespace(m.Data))

\* the time stamps of a sequence of messages or of post calls
TimesOf(msgs) == [k \in DOMAIN msgs |-> msgs[k].Time]
PostTimesOf(ps) == [k \in DOMAIN ps |-> ps[k].time]

\* everything the producer of s has sent: what was dequeued, then what waits
SentTo(s) == received[s] \o logstream[s]

\* the message a post call was made for
MsgOf(p) == CHOOSE m \in {received[p.stream][k] : k \in DOMAIN received[p.stream]} :
                m.Time = p.time

\* the indices in posts of the calls made for message m
PostsFor(m) == {j \in DOMAIN posts : posts[j].time = m.Time}

\* the label value when the label is present and not empty, and otherwise
\* containerName-containerHostname
ExpectedSuffix(key, m) ==
    IF key \in DOMAIN m.Labels /\ m.Labels[key] # <<>>
    THEN m.Labels[key]
    ELSE m.Name \o <<45>> \o m.Hostname

\* C1: a failed post never stops the loop. A returning post, failed or not,
\* leaves the loop waiting for the next message, a failure having been
\* logged; the loop is left only with the channel closed and drained; and
\* every message dequeued that is not blank has been posted, whatever the
\* earlier posts returned.
C1_FailureNeverStopsLoop ==
    /\ [](\A s \in Streams :
            /\ pc[s] = "done" => closed[s] /\ logstream[s] = <<>>
            /\ \A k \in DOMAIN received[s] :
                 ~OnlyWhitespace(received[s][k].Data) => PostsFor(received[s][k]) # {})
    /\ [][\A s \in Streams :
            inflight[s] # 0 /\ inflight'[s] # inflight[s] =>
               /\ pc'[s] = "recv"
               /\ posts'[inflight[s]].res \in {"ok", "err"}
               /\ posts'[inflight[s]].res = "err" =>
                    errLog' = Append(errLog, inflight[s])]_vars

\* a post failed, a later message of the same stream was posted, and the
\* loop ended on the closed channel
C1_Witness ==
    \E j, k \in DOMAIN posts :
        /\ j < k
        /\ posts[j].stream = posts[k].stream
        /\ posts[j].res = "err"
        /\ posts[k].res = "ok"
        /\ pc[posts[j].stream] = "done"

\* C2: each message that is not blank causes exactly one PostWithTime call
\* and each blank message none, so the number of calls of a stream equals
\* the number of non-blank messages it received, whatever the posts returned.
C2_OnePostPerMessage ==
    \A s \in Streams :
        /\ Len(PostsOf(s)) = Len(NonBlank(received[s]))
        /\ \A k \in DOMAIN received[s] :
             Cardinality(PostsFor(received[s][k])) =
                 IF OnlyWhitespace(received[s][k].Data) THEN 0 ELSE 1

\* a stream has ended after a blank message, a failed post and a good one
C2_Witness ==
    /\ pc["s1"] = "done"
    /\ Len(received["s1"]) = 3
    /\ Len(PostsOf("s1")) = 2
    /\ \E j \in DOMAIN posts : posts[j].res = "err"

\* stream s carried exactly three messages, none blank, was closed, and the
\* sender failed on the second message only
ThreeMessagesSecondFails(s) ==
    /\ closed[s]
    /\ Len(SentTo(s)) = 3
    /\ \A k \in 1..3 : ~OnlyWhitespace(SentTo(s)[k].Data)
    /\ \A j \in DOMAIN posts :
         posts[j].stream = s /\ posts[j].res # "pending" =>
             (posts[j].res = "err" <=> posts[j].time = SentTo(s)[2].Time)
    /\ \E j \in DOMAIN posts :
         posts[j].res = "err" /\ posts[j].time = SentTo(s)[2].Time

\* C3 as stated: with three messages and a sender failing on the second only,
\* the loop processes the third and post is called exactly twice.
C3_PostCalledTwice ==
    \A s \in Streams :
        pc[s] = "done" /\ ThreeMessagesSecondFails(s) =>
            /\ Len(received[s]) = 3
            /\ Len(PostsOf(s)) = 2

\* C3 amended: with three messages and a sender failing on the second only,
\* the loop processes the third; post is called exactly three times, once per
\* message in arrival order with that message's tag, time and record; exactly
\* two calls succeed, and the failure of the second is the one line logged.
C3_PostCalledThreeTimesTwoSucceed ==
    \A s \in Streams :
        pc[s] = "done" /\ ThreeMessagesSecondFails(s) =>
            /\ Len(received[s]) = 3
            /\ Len(PostsOf(s)) = 3
            /\ \A k \in 1..3 :
                 /\ PostsOf(s)[k].time = received[s][k].Time
                 /\ PostsOf(s)[k].tag =
                        adapter.tagPrefix \o <<46>> \o
                        ExpectedSuffix(adapter.tagSuffixLabel, received[s][k])
                 /\ PostsOf(s)[k].record =
                        [log |-> received[s][k].Data,
                         container_id |-> received[s][k].ID,
                         container_name |-> received[s][k].Name,
                         source |-> received[s][k].Source]
                 /\ PostsOf(s)[k].res = IF k = 2 THEN "err" ELSE "ok"
            /\ Len(errLog) = 1
            /\ posts[errLog[1]].time = received[s][2].Time

\* the scenario of C3 has run to the end of the stream
C3_Witness ==
    pc["s1"] = "done" /\ ThreeMessagesSecondFails("s1")

\* C4: the posts of a stream are its non-blank messages in arrival order,
\* at most one of them has not returned, the loop is then inside that call,
\* and no message is dequeued while a post of the stream has not returned.
C4_InOrderOneInFlight ==
    /\ [](\A s \in Streams :
            /\ PostTimesOf(PostsOf(s)) = TimesOf(NonBlank(received[s]))
            /\ Cardinality({j \in DOMAIN posts :
                   posts[j].stream = s /\ posts[j].res = "pending"}) <= 1
            /\ (\E j \in DOMAIN posts :
                   posts[j].stream = s /\ posts[j].res = "pending") => pc[s] = "post")
    /\ [][\A s \in Streams :
            received'[s] # received[s] =>
                ~\E j \in DOMAIN posts :
                    posts[j].stream = s /\ posts[j].res = "pending"]_vars

\* two posts were made around a blank message, the second not yet returned
C4_Witness ==
    /\ Len(received["s1"]) = 3
    /\ OnlyWhitespace(received["s1"][2].Data)
    /\ Len(PostsOf("s1")) = 2
    /\ PostsOf("s1")[1].res # "pending"
    /\ PostsOf("s1")[2].res = "pending"

\* the dial loop is over and the frame of NewAdapter still holds its record
ProbeDone ==
    \/ pcNew \in {"config", "new"}
    \/ /\ pcNew = "failed"
       /\ newErr \notin {"Unable to find adapter", "CONNECTION_MAX_RETRIES",
                         "CONNECTION_RETRY_WAIT"}

\* C5: with CONNECTION_MAX_RETRIES = n >= 0 the probe dials at most n+1
\* times and never after a success; when it ends after k failures and a
\* success there were k+1 dials and k sleeps of the configured wait and no
\* dial error; when all dials failed there were n+1 dials and n sleeps and
\* NewAdapter returned the dial error and no adapter.
C5_ProbeAttemptsAndSleeps ==
    connMaxRetries >= 0 /\ pcNew \in {"loop", "config", "new", "failed"} =>
        /\ Len(dials) <= connMaxRetries + 1
        /\ \A k \in 1..(Len(dials) - 1) : ~dials[k]
        /\ \A k \in DOMAIN sleeps : sleeps[k] = connRetryWait
        /\ ProbeDone =>
             IF dials # <<>> /\ dials[Len(dials)]
             THEN /\ Len(sleeps) = Len(dials) - 1
                  /\ newErr # "dial"
             ELSE /\ Len(dials) = connMaxRetries + 1
                  /\ Len(sleeps) = connMaxRetries
                  /\ pcNew = "failed"
                  /\ newErr = "dial"
                  /\ adapter = NilAdapter

\* the probe failed twice and then succeeded
C5_Witness ==
    /\ pcNew = "config"
    /\ connMaxRetries = 2
    /\ dials = <<FALSE, FALSE, TRUE>>
    /\ Len(sleeps) = 2

\* C6: with CONNECTION_MAX_RETRIES = 0 exactly one dial is made, and when it
\* fails NewAdapter returns the error at once, without a sleep.
C6_ZeroRetries ==
    connMaxRetries = 0 /\ ProbeDone =>
        /\ Len(dials) = 1
        /\ ~dials[1] =>
             /\ sleeps = <<>>
             /\ pcNew = "failed"
             /\ newErr = "dial"
             /\ adapter = NilAdapter
             /\ writer = NIL

\* the single dial of a probe without retries failed
C6_Witness ==
    /\ connMaxRetries = 0
    /\ pcNew = "failed"
    /\ newErr = "dial"
    /\ dials = <<FALSE>>

\* C7: a probe that exhausts its dials leaves no adapter, no sender and no
\* post; and every post call is preceded by a probe that ended with a
\* successful dial.
C7_NoPipelineWithoutProbe ==
    /\ pcNew = "failed" /\ newErr = "dial" =>
           adapter = NilAdapter /\ writer = NIL /\ posts = <<>>
    /\ posts # <<>> => probeConn

\* C8: with an empty tag prefix the posted tag has no leading dot: it is the
\* suffix alone.
C8_EmptyPrefixNoLeadingDot ==
    \A j \in DOMAIN posts :
        adapter.tagPrefix = <<>> =>
            /\ Head(posts[j].tag) # 46
            /\ posts[j].tag = ExpectedSuffix(adapter.tagSuffixLabel, MsgOf(posts[j]))

\* C9: with a non-empty tag prefix every posted tag is prefix "." suffix, the
\* suffix being the label value when present and not empty and otherwise
\* containerName-containerHostname; neither tag nor suffix is ever empty.
C9_TagIsPrefixDotSuffix ==
    \A j \in DOMAIN posts :
        adapter.tagPrefix # <<>> =>
            LET suffix == ExpectedSuffix(adapter.tagSuffixLabel, MsgOf(posts[j]))
            IN  /\ posts[j].tag = adapter.tagPrefix \o <<46>> \o suffix
                /\ posts[j].tag # <<>>
                /\ suffix # <<>>
                /\ Len(posts[j].tag) > Len(adapter.tagPrefix) + 1

\* messages were posted under a prefix from a container with the label set,
\* and from one with the label empty
C9_Witness ==
    /\ adapter.tagPrefix # <<>>
    /\ adapter.tagSuffixLabel = StrSvc
    /\ \E j, k \in DOMAIN posts :
         /\ MsgOf(posts[j]).Labels = ContainerB.Labels
         /\ MsgOf(posts[k]).Labels = ContainerC.Labels

\* C10: a message whose data is empty or only white space is dropped without
\* a send; for every other message a send is attempted.
C10_BlankDroppedOthersSent ==
    \A s \in Streams : \A k \in DOMAIN received[s] :
        LET m == received[s][k]
            sent == \E j \in DOMAIN posts :
                        /\ posts[j].stream = s
                        /\ posts[j].time = m.Time
                        /\ posts[j].record.log = m.Data
        IN  OnlyWhitespace(m.Data) <=> ~sent

\* an empty message, a white-space one and one with text between white
\* space were received
C10_Witness ==
    /\ Len(received["s1"]) = 3
    /\ received["s1"][1].Data = <<>>
    /\ received["s1"][2].Data = <<32, 9, 10>>
    /\ received["s1"][3].Data = <<32, 97, 10>>
    /\ Len(posts) = 1

\* C11: the record of every post call has exactly the keys log,
\* container_id, container_name and source, holding the data, container ID,
\* container name and source of its message unchanged, and the time passed is
\* the time of that message; the message of the k-th call of a stream is
\* the k-th non-blank message the stream received.
C11_RecordCopiesMessage ==
    \A s \in Streams : \A k \in DOMAIN PostsOf(s) :
        k \in DOMAIN NonBlank(received[s]) /\
        LET p == PostsOf(s)[k]
            m == NonBlank(received[s])[k]
        IN  /\ DOMAIN p.record = {"log", "container_id", "container_name", "source"}
            /\ p.record["log"] = m.Data
            /\ p.record["container_id"] = m.ID
            /\ p.record["container_name"] = m.Name
            /\ p.record["source"] = m.Source
            /\ p.time = m.Time

\* two messages of different containers and sources were posted, one with
\* white space around its text
C11_Witness ==
    /\ Len(PostsOf("s1")) = 2
    /\ PostsOf("s1")[1].record["log"] = <<32, 97, 10>>
    /\ PostsOf("s1")[2].record["container_id"] = ContainerB.ID

\* a step of the loop of stream s
StreamStep(s) ==
    \/ Receive(s)
    \/ \E err \in BOOLEAN : PostReturn(s, err)
    \/ StreamExit(s)

\* what is left for the loop of s to do: two per message waiting, one for a
\* post that has not returned, one for the return of Stream
Measure(s) ==
    2 * Len(logstream[s]) + (IF pc[s] = "post" THEN 1 ELSE 0)
        + (IF pc[s] = "done" THEN 0 ELSE 1)

NumericKeys ==
    {"CONNECTION_MAX_RETRIES", "CONNECTION_RETRY_WAIT", "FLUENTD_BUFFER_LIMIT",
     "FLUENTD_RETRY_WAIT", "FLUENTD_MAX_RETRIES", "FLUENTD_WRITE_TIMEOUT"}

BooleanKeys ==
    {"FLUENTD_ASYNC_CONNECT", "FLUENTD_SUBSECOND_PRECISION", "FLUENTD_REQUEST_ACK"}

\* text is a decimal integer: an optional sign, then one digit or more
IsIntegerText(text) ==
    LET digits == IF text # <<>> /\ Head(text) \in {43, 45} THEN Tail(text) ELSE text
    IN  digits # <<>> /\ \A k \in DOMAIN digits : digits[k] \in 48..57

\* text is one of the spellings of a boolean
IsBooleanText(text) ==
    text \in {<<49>>, <<116>>, <<84>>, <<116, 114, 117, 101>>, <<84, 82, 85, 69>>,
              <<84, 114, 117, 101>>, <<48>>, <<102>>, <<70>>,
              <<102, 97, 108, 115, 101>>, <<70, 65, 76, 83, 69>>,
              <<70, 97, 108, 115, 101>>}

\* a value that is set (an empty one takes the default) and does not parse
MalformedValue(key, value) ==
    /\ value # <<>>
    /\ \/ key \in NumericKeys /\ ~IsIntegerText(value)
       \/ key \in BooleanKeys /\ ~IsBooleanText(value)

\* an address that is not host:port with exactly one colon and an integer port
MalformedAddress(a) ==
    LET colons == {k \in DOMAIN a : a[k] = 58}
    IN  \/ Cardinality(colons) # 1
        \/ \E k \in colons : ~IsIntegerText(SubSeq(a, k + 1, Len(a)))

\* C13: a malformed integer or boolean value in a configuration key NewAdapter
\* has read, or a malformed target address, makes NewAdapter return an error:
\* the adapter stays nil and the fluentd writer is never constructed.  The
\* writer is constructed only after all nine keys have been read and parsed,
\* and an adapter is returned only from that construction.
C13_MalformedConfigFails ==
    /\ [](/\ \A key \in DOMAIN envRead :
                MalformedValue(key, envRead[key]) =>
                    pcNew = "failed" /\ adapter = NilAdapter /\ writer = NIL
          /\ MalformedAddress(address) =>
                pcNew \notin {"new", "returned"} /\ adapter = NilAdapter /\ writer = NIL
          /\ pcNew = "new" => DOMAIN envRead = NumericKeys \cup BooleanKeys
          /\ pcNew = "failed" => newErr # "" /\ adapter = NilAdapter /\ writer = NIL
          /\ writer # NIL \/ adapter # NilAdapter => pcNew = "returned")
    /\ [][pcNew' = "returned" => pcNew \in {"new", "returned"}]_vars

C13_Witness ==
    /\ pcNew = "failed"
    /\ newErr = "FLUENTD_REQUEST_ACK"
    /\ "FLUENTD_REQUEST_ACK" \in DOMAIN envRead
    /\ envRead["FLUENTD_REQUEST_ACK"] = <<121>>
    /\ probeConn
    /\ writer = NIL

\* ---------------------------------------------------------------------------
\* C14

\* what a message holds besides its own time
Content(m) ==
    [ID |-> m.ID, Name |-> m.Name, Hostname |-> m.Hostname, Labels |-> m.Labels,
     Data |-> m.Data, Source |-> m.Source]

\* the k-th message of stream s that was posted
Posted(s, k) == NonBlank(received[s])[k]

\* C14: the transform keeps no history. Two posts made for messages of the
\* same content carry the same tag and the same record, whatever was
\* dequeued between them and whatever the earlier posts returned, and each
\* carries the time of its own message.
C14_SameMessageSameArguments ==
    \A s \in Streams :
        LET ps == PostsOf(s)
        IN  /\ Len(ps) <= Len(NonBlank(received[s]))
            /\ \A j \in DOMAIN ps : ps[j].time = Posted(s, j).Time
            /\ \A j, k \in DOMAIN ps :
                   Content(Posted(s, j)) = Content(Posted(s, k)) =>
                       ps[j].tag = ps[k].tag /\ ps[j].record = ps[k].record

C14_Witness ==
    /\ Len(received["s1"]) = 3
    /\ Len(PostsOf("s1")) = 3
    /\ Content(received["s1"][1]) = Content(received["s1"][3])
    /\ Content(received["s1"][1]) # Content(received["s1"][2])
    /\ PostsOf("s1")[1].res = "err"
    /\ PostsOf("s1")[2].res = "ok"
    /\ PostsOf("s1")[1].tag = PostsOf("s1")[3].tag
    /\ PostsOf("s1")[1].time # PostsOf("s1")[3].time

\* ---------------------------------------------------------------------------
\* C15

\* what the Stream invocation of s owns: its position, its channel, what it
\* dequeued and the calls it made
WorkerState(s) == <<pc[s], logstream[s], closed[s], received[s], inflight[s], PostsOf(s)>>

\* C15: with two streams drained by two Stream invocations on one adapter,
\* each stream's messages that are not blank are posted exactly once and in
\* that stream's arrival order; no invocation waits for the other (a message
\* waiting is dequeued, a post returns and a closed empty channel ends the
\* loop whatever the other invocation is doing); a step of one invocation
\* changes nothing the other owns; and the adapter they share is never written.
C15_ConcurrentStreamsIndependent ==
    /\ [](\A s \in Streams :
            /\ PostTimesOf(PostsOf(s)) = TimesOf(NonBlank(received[s]))
            /\ \A j, k \in DOMAIN posts : posts[j].time = posts[k].time => j = k
            /\ pc[s] = "recv" /\ logstream[s] # <<>> => ENABLED Receive(s)
            /\ pc[s] = "post" => \A err \in BOOLEAN : ENABLED PostReturn(s, err)
            /\ pc[s] = "recv" /\ logstream[s] = <<>> /\ closed[s] => ENABLED StreamExit(s)
            /\ pc[s] = "done" => logstream[s] = <<>> /\ inflight[s] = 0)
    /\ [][/\ adapter' = adapter
          /\ writer' = writer
          /\ \A s, t \in Streams :
               s # t /\ <<pc[s], received[s]>>' # <<pc[s], received[s]>> =>
                   WorkerState(t)' = WorkerState(t)]_vars

C15_Witness ==
    /\ Len(posts) = 3
    /\ posts[1].stream = "s1" /\ posts[1].res # "pending"
    /\ posts[2].stream = "s2" /\ posts[2].res = "pending"
    /\ posts[3].stream = "s1"
    /\ pc["s2"] = "post" /\ inflight["s2"] = 2
    /\ pc["s1"] = "post" /\ inflight["s1"] = 3

\* ---------------------------------------------------------------------------
\* C16

\* C16: whatever integer CONNECTION_MAX_RETRIES parses to, a negative one
\* included, NewAdapter reaches fluent.New, holds a writer or returns an
\* adapter only after a dial of the probe has succeeded.
C16_SenderOnlyAfterSuccessfulDial ==
    pcNew = "new" \/ writer # NIL \/ ~adapter.isNil => probeConn

\* ---------------------------------------------------------------------------
\* C17

\* sequence a is the beginning of sequence b
IsPrefix(a, b) == Len(a) <= Len(b) /\ SubSeq(b, 1, Len(a)) = a

\* C17: messages in the channel at the close are not lost. While the closed
\* channel holds a message the loop dequeues it and cannot return; nothing
\* sent is ever dropped (what was sent only grows, and not at all after the
\* close); and when Stream has returned the channel is closed and empty,
\* every message sent has been dequeued, and those not blank were posted
\* once each, in order, every post having returned.
C17_PendingMessagesDrained ==
    /\ [](\A s \in Streams :
            /\ closed[s] /\ pc[s] = "recv" /\ logstream[s] # <<>> =>
                   ENABLED Receive(s) /\ ~ENABLED StreamExit(s)
            /\ closed[s] /\ pc[s] = "post" => ~ENABLED StreamExit(s)
            /\ closed[s] => Len(logstream[s]) <= pendingAtClose[s]
            /\ pc[s] = "done" =>
                   /\ closed[s] /\ logstream[s] = <<>>
                   /\ received[s] = SentTo(s)
                   /\ pendingAtClose[s] <= Len(received[s])
                   /\ PostTimesOf(PostsOf(s)) = TimesOf(NonBlank(SentTo(s)))
                   /\ \A k \in DOMAIN PostsOf(s) : PostsOf(s)[k].res # "pending")
    /\ [][\A s \in Streams :
            /\ IsPrefix(SentTo(s), SentTo(s)')
            /\ closed[s] => SentTo(s)' = SentTo(s)
            /\ IsPrefix(received[s], received[s]')]_vars

C17_Witness ==
    /\ pc["s1"] = "done"
    /\ pendingAtClose["s1"] = 2
    /\ Len(received["s1"]) = 2
    /\ Len(PostsOf("s1")) = 2
    /\ PostsOf("s1")[1].time < PostsOf("s1")[2].time

\* ---------------------------------------------------------------------------
\* C18

\* C18: every adapter NewAdapter returns has a tag prefix that is not empty:
\* "docker" when TAG_PREFIX is unset or empty, the value of TAG_PREFIX
\* otherwise; and every tag posted begins with that prefix and a dot, so the
\* branch of Stream for an empty prefix is never taken.
C18_PrefixNeverEmpty ==
    ~adapter.isNil =>
        /\ "TAG_PREFIX" \in DOMAIN envRead
        /\ Len(adapter.tagPrefix) > 0
        /\ adapter.tagPrefix =
               (IF envRead["TAG_PREFIX"] = <<>> THEN StrDocker ELSE envRead["TAG_PREFIX"])
        /\ \A j \in DOMAIN posts :
               /\ IsPrefix(adapter.tagPrefix \o <<46>>, posts[j].tag)
               /\ posts[j].tag[1] # 46

C18_Witness ==
    /\ ~adapter.isNil
    /\ "TAG_PREFIX" \in DOMAIN envRead
    /\ envRead["TAG_PREFIX"] = <<>>
    /\ adapter.tagPrefix = StrDocker
    /\ Len(posts) = 2
    /\ SubSeq(posts[2].tag, 1, 7) = StrDocker \o <<46>>

====
